---- MODULE Spec2Model ----
(***************************************************************************)
(* A model of the two build scripts of all-in-one-clipboard:               *)
(*   build/countries/scripts/country_json_api_fetch.py  (country pipeline) *)
(*   gnome-extensions/build-aux/extract-data-strings.py (POT extraction)   *)
(* Text is modelled as sequences of one-character strings, so that         *)
(* substring tests, stripping, concatenation, line splitting and           *)
(* comparison are computed the way Python computes them.                   *)
(***************************************************************************)
EXTENDS Integers, Sequences, FiniteSets, TLC

VARIABLES
    dirs,             \* directories that exist under EXTENSION_ROOT
    xml,              \* the manifest file XML_FILE_PATH: [exists, content]
    svgDir,           \* names of the files in SVG_OUTPUT_DIR
    jsonFile,         \* countries.json: [exists, records]
    pc,               \* position of the running script
    runs,             \* number of pipeline runs started
    data,             \* main: the fetched list of upstream records
    resource_prefix,  \* main: the prefix read from the manifest
    processed_list,   \* main: the records built so far
    downloaded_svgs,  \* main: the filenames downloaded so far
    idx,              \* loop index of the running script
    handed,           \* the call the current run made to update_gresource_xml
    atStart,          \* the filesystem as the current run found it
    svg_files,        \* argument of a direct update_gresource_xml call
    syncLog,          \* manifest before/after each update_gresource_xml
    dial,             \* one format_dial_code call: arguments and result
    ext,              \* one extract_strings_recursive call
    all_strings,      \* extract-data-strings main: the accumulated set
    json_files,       \* extract-data-strings main: discovered files
    inputDir,         \* extract-data-strings: the input directory listing
    counts,           \* extract-data-strings main: count per file
    pot               \* the generated template: [exists, blocks, total]

vars == <<dirs, xml, svgDir, jsonFile, pc, runs, data, resource_prefix,
          processed_list, downloaded_svgs, idx, handed, atStart, svg_files,
          syncLog,
          dial, ext, all_strings, json_files, inputDir, counts, pot>>

pipelineVars == <<dirs, svgDir, jsonFile, runs, data, resource_prefix,
                  processed_list, downloaded_svgs, idx, handed, atStart>>
syncVars == <<svg_files, syncLog>>
dialVars == <<dial>>
extVars == <<ext>>
potVars == <<all_strings, json_files, inputDir, counts, pot>>

(***************************************************************************)
(* Bounds of the model.                                                    *)
(***************************************************************************)
MaxLines == 3       \* lines of a manifest
MaxFiles == 2       \* length of a filename list handed to the synchronizer
MaxCalls == 2       \* consecutive update_gresource_xml calls
MaxCountries == 2   \* upstream records of one fetch
MaxRuns == 2        \* pipeline runs in a row
MaxItems == 2       \* elements of a JSON list given to the extractor

(***************************************************************************)
(* Text.                                                                   *)
(***************************************************************************)
LF == "\n"
CR == "\r"
UpperLetters == <<"A", "B", "C", "D", "E", "F", "G", "H", "I", "J", "K", "L", "M",
                  "N", "O", "P", "Q", "R", "S", "T", "U", "V", "W", "X", "Y", "Z">>
LowerLetters == <<"a", "b", "c", "d", "e", "f", "g", "h", "i", "j", "k", "l", "m",
                  "n", "o", "p", "q", "r", "s", "t", "u", "v", "w", "x", "y", "z">>

IndexIn(c, letters) ==
    IF \E i \in 1..Len(letters) : letters[i] = c
    THEN CHOOSE i \in 1..Len(letters) : letters[i] = c
    ELSE 0

\* ord(): the code point of a character.
Ord(c) ==
    IF IndexIn(c, UpperLetters) > 0 THEN 64 + IndexIn(c, UpperLetters)
    ELSE IF IndexIn(c, LowerLetters) > 0 THEN 96 + IndexIn(c, LowerLetters)
    ELSE CASE c = "\t" -> 9 [] c = "\n" -> 10 [] c = "\r" -> 13
           [] c = " " -> 32 [] c = "\"" -> 34 [] c = "+" -> 43
           [] c = "-" -> 45 [] c = "." -> 46 [] c = "/" -> 47
           [] c = "0" -> 48 [] c = "1" -> 49 [] c = "2" -> 50
           [] c = "3" -> 51 [] c = "4" -> 52 [] c = "5" -> 53
           [] c = "6" -> 54 [] c = "7" -> 55 [] c = "8" -> 56
           [] c = "9" -> 57 [] c = ":" -> 58 [] c = "<" -> 60
           [] c = "=" -> 61 [] c = ">" -> 62 [] c = "\\" -> 92

\* str.isalpha() of one character.
IsAlpha(c) == IndexIn(c, UpperLetters) > 0 \/ IndexIn(c, LowerLetters) > 0

\* str.lower() and str.upper().
StrLower(s) ==
    [i \in 1..Len(s) |->
        IF IndexIn(s[i], UpperLetters) > 0
        THEN LowerLetters[IndexIn(s[i], UpperLetters)] ELSE s[i]]

StrUpper(s) ==
    [i \in 1..Len(s) |->
        IF IndexIn(s[i], LowerLetters) > 0
        THEN UpperLetters[IndexIn(s[i], LowerLetters)] ELSE s[i]]

\* Python's < on str: lexicographic by code point.
RECURSIVE StrLess(_, _)
StrLess(a, b) ==
    IF b = <<>> THEN FALSE
    ELSE IF a = <<>> THEN TRUE
    ELSE IF Ord(a[1]) # Ord(b[1]) THEN Ord(a[1]) < Ord(b[1])
    ELSE StrLess(Tail(a), Tail(b))

StrLeq(a, b) == ~StrLess(b, a)

\* `pat in s` on str.
Contains(s, pat) ==
    \E i \in 1..(Len(s) - Len(pat) + 1) : SubSeq(s, i, i + Len(pat) - 1) = pat

\* s has pat at position i.
StartsAt(s, i, pat) ==
    i + Len(pat) - 1 <= Len(s) /\ SubSeq(s, i, i + Len(pat) - 1) = pat

\* str.endswith
EndsWith(s, pat) ==
    Len(s) >= Len(pat) /\ SubSeq(s, Len(s) - Len(pat) + 1, Len(s)) = pat

Whitespace == {" ", "\t", "\n", "\r", "\f"}

\* The number of leading whitespace characters of s.
LeadingWs(s) ==
    IF \A i \in 1..Len(s) : s[i] \in Whitespace THEN Len(s)
    ELSE (CHOOSE i \in 1..Len(s) :
            s[i] \notin Whitespace /\ \A j \in 1..(i - 1) : s[j] \in Whitespace) - 1

TrailingWs(s) ==
    IF \A i \in 1..Len(s) : s[i] \in Whitespace THEN Len(s)
    ELSE Len(s) - (CHOOSE i \in 1..Len(s) :
            s[i] \notin Whitespace /\ \A j \in (i + 1)..Len(s) : s[j] \in Whitespace)

\* str.lstrip() and str.strip().
LStrip(s) == SubSeq(s, LeadingWs(s) + 1, Len(s))
Strip(s) ==
    IF LeadingWs(s) = Len(s) THEN <<>>
    ELSE SubSeq(s, LeadingWs(s) + 1, Len(s) - TrailingWs(s))

RECURSIVE Concat(_)
Concat(ss) == IF ss = <<>> THEN <<>> ELSE Head(ss) \o Concat(Tail(ss))

\* list.sort(key=...) and sorted(): a stable insertion sort of [key, val] pairs
\* on key, comparing keys as Python compares str.
RECURSIVE InsertKeyed(_, _)
InsertKeyed(x, sorted) ==
    IF sorted = <<>> THEN <<x>>
    ELSE IF StrLeq(x.key, Head(sorted).key)
         THEN <<x>> \o sorted
         ELSE <<Head(sorted)>> \o InsertKeyed(x, Tail(sorted))

\* Inserting from the last element down to the first, each before the first
\* key that is not smaller, keeps equal keys in their original order.
RECURSIVE SortKeyed(_)
SortKeyed(list) ==
    IF list = <<>> THEN <<>>
    ELSE InsertKeyed(Head(list), SortKeyed(Tail(list)))

Sorted(list) ==
    LET keyed == SortKeyed([i \in 1..Len(list) |-> [key |-> list[i], val |-> list[i]]])
    IN  [i \in 1..Len(keyed) |-> keyed[i].val]

Range(f) == {f[i] : i \in DOMAIN f}

\* Sequences over S of length at most n.
SeqsUpTo(S, n) == UNION {[1..k -> S] : k \in 0..n}

(***************************************************************************)
(* country_json_api_fetch.py: the manifest and update_gresource_xml.       *)
(***************************************************************************)
svg_rel_path == <<"a", "s", "s", "e", "t", "s", "/", "d", "a", "t", "a", "/", "s", "v", "g", "/">>
FILE_OPEN == <<"<", "f", "i", "l", "e", ">">>
FILE_CLOSE == <<"<", "/", "f", "i", "l", "e", ">">>
GRES_CLOSE == <<"<", "/", "g", "r", "e", "s", "o", "u", "r", "c", "e", ">">>
INDENT == <<" ", " ", " ", " ">>
DOT_SVG == <<".", "s", "v", "g">>

NoFile == [exists |-> FALSE, content |-> <<>>]
TextFile(content) == [exists |-> TRUE, content |-> content]

\* Reading in text mode (newline=None): "\r\n" and a lone "\r" are
\* translated to "\n" before the text reaches the caller.
UniversalNewlines(s) ==
    LET positions == [i \in 1..Len(s) |-> i]
        kept == SelectSeq(positions,
                          LAMBDA i : ~(s[i] = LF /\ i > 1 /\ s[i - 1] = CR))
    IN  [k \in 1..Len(kept) |-> IF s[kept[k]] = CR THEN LF ELSE s[kept[k]]]

\* The lines of a text, each with its "\n"; the last may have none.
RECURSIVE SplitKeepEnds(_)
SplitKeepEnds(s) ==
    IF s = <<>> THEN <<>>
    ELSE IF \E i \in 1..Len(s) : s[i] = LF
         THEN LET e == CHOOSE i \in 1..Len(s) :
                          s[i] = LF /\ \A j \in 1..(i - 1) : s[j] # LF
              IN  <<SubSeq(s, 1, e)>> \o SplitKeepEnds(SubSeq(s, e + 1, Len(s)))
         ELSE <<s>>

\* f.readlines() of a file opened with open(path, 'r', encoding='utf-8').
ReadLines(content) == SplitKeepEnds(UniversalNewlines(content))

\* os.linesep of the platform the extension is built on.
linesep == <<LF>>

\* f.writelines(lines) of a file opened with open(path, 'w'): on writing,
\* each "\n" becomes os.linesep.
WriteLines(lines) ==
    LET pieces == SplitKeepEnds(Concat(lines))
    IN  Concat([i \in 1..Len(pieces) |->
                  IF pieces[i][Len(pieces[i])] = LF
                  THEN SubSeq(pieces[i], 1, Len(pieces[i]) - 1) \o linesep
                  ELSE pieces[i]])

\* Line 117: the line is an old flag declaration.
IsFlagDeclaration_never(line) == FALSE
IsFlagDeclaration(line) == Contains(line, svg_rel_path) /\ Contains(line, FILE_OPEN)

\* Line 121: the line closes the gresource section.
IsClosingLine(line) == Contains(line, GRES_CLOSE)

\* Lines 123-126: the indentation of the inserted declarations.
FileIndent(line) == SubSeq(line, 1, Len(line) - Len(LStrip(line))) \o INDENT

\* Line 129: one declaration line.
DeclarationLine(indent, filename) ==
    indent \o FILE_OPEN \o svg_rel_path \o filename \o FILE_CLOSE \o <<LF>>

\* Lines 128-129: the declarations inserted before one closing line.
InsertedLines(line, files) ==
    [i \in 1..Len(files) |-> DeclarationLine(FileIndent(line), Sorted(files)[i])]

\* Lines 109-132: the loop that builds new_lines.
RECURSIVE NewLines(_, _)
NewLines(lines, files) ==
    IF lines = <<>> THEN <<>>
    ELSE LET line == Head(lines)
             rest == NewLines(Tail(lines), files)
         IN  IF IsFlagDeclaration(line) THEN rest
             ELSE IF IsClosingLine(line)
                  THEN InsertedLines(line, files) \o <<line>> \o rest
                  ELSE <<line>> \o rest

\* update_gresource_xml(svg_files) as a function of the manifest file.
update_gresource_xml(file, files) ==
    IF ~file.exists THEN file
    ELSE TextFile(WriteLines(NewLines(ReadLines(file.content), files)))

(***************************************************************************)
(* Values the variables of a script hold while another script is modelled. *)
(***************************************************************************)
\* fetch_api_data's None.
NoData == [ok |-> FALSE, list |-> <<>>]
IdlePipeline ==
    /\ dirs = {} /\ svgDir = {} /\ jsonFile = [exists |-> FALSE, records |-> <<>>]
    /\ runs = 0 /\ data = NoData /\ resource_prefix = <<>> /\ processed_list = <<>>
    /\ downloaded_svgs = <<>> /\ idx = 0 /\ handed = <<>> /\ atStart = <<>>
IdleSync == svg_files = <<>> /\ syncLog = <<>>
IdleDial == dial = [called |-> FALSE]
IdleExt == ext = [called |-> FALSE]
IdlePot ==
    /\ all_strings = {} /\ json_files = <<>> /\ inputDir = {} /\ counts = <<>>
    /\ pot = [exists |-> FALSE, blocks |-> <<>>, total |-> 0]

(***************************************************************************)
(* SpecSync: update_gresource_xml called on any manifest with any filename *)
(* list, MaxCalls times in a row with the same list.                       *)
(***************************************************************************)
\* download_svg, line 60: the filename of a country's flag.
SvgName(cca2) == StrLower(cca2) \o DOT_SVG

ICON_PATH == <<"a", "s", "s", "e", "t", "s", "/", "d", "a", "t", "a", "/",
               "i", "c", "o", "n", "s", "/", "l", "o", "g", "o", ".", "p", "n", "g">>
IconLine == INDENT \o FILE_OPEN \o ICON_PATH \o FILE_CLOSE
StaleLine == INDENT \o FILE_OPEN \o svg_rel_path \o SvgName(<<"U", "S">>) \o FILE_CLOSE
ClosingLine == <<" ", " ">> \o GRES_CLOSE
PathComment == <<"<", "!", "-", "-">> \o svg_rel_path \o <<"-", "-", ">">>
LineBodies == {IconLine, StaleLine, ClosingLine, PathComment}
Terminators == {<<LF>>, <<CR, LF>>}

\* A manifest: line bodies joined by one terminator style, the last line
\* with or without its terminator.
ManifestText(bodies, term, final) ==
    Concat([i \in 1..Len(bodies) |->
              bodies[i] \o (IF i < Len(bodies) \/ final THEN term ELSE <<>>)])
ManifestContents ==
    {ManifestText(b, t, f) : b \in SeqsUpTo(LineBodies, MaxLines),
                             t \in Terminators, f \in BOOLEAN}
FileNames == {SvgName(<<"D", "E">>), SvgName(<<"U", "S">>)}
FileLists == SeqsUpTo(FileNames, MaxFiles)

InitSync ==
    /\ pc = "sync"
    /\ xml \in {NoFile} \cup {TextFile(c) : c \in ManifestContents}
    /\ svg_files \in FileLists
    /\ syncLog = <<>>
    /\ IdlePipeline /\ IdleDial /\ IdleExt /\ IdlePot

SyncCall ==
    /\ pc = "sync"
    /\ Len(syncLog) < MaxCalls
    /\ xml' = update_gresource_xml(xml, svg_files)
    /\ syncLog' = Append(syncLog, [before |-> xml, after |-> xml'])
    /\ UNCHANGED <<pc, svg_files, pipelineVars, dialVars, extVars, potVars>>

NextSync == SyncCall
SpecSync == InitSync /\ [][NextSync]_vars

(***************************************************************************)
(* What a manifest declares, read off the file's text.                     *)
(***************************************************************************)
\* The lines of a text with the terminators they have in the file.
RECURSIVE RawLines(_)
RawLines(s) ==
    IF s = <<>> THEN <<>>
    ELSE IF \E i \in 1..Len(s) : s[i] \in {LF, CR}
         THEN LET b == CHOOSE i \in 1..Len(s) :
                          s[i] \in {LF, CR} /\ \A j \in 1..(i - 1) : s[j] \notin {LF, CR}
                  e == IF s[b] = CR /\ b < Len(s) /\ s[b + 1] = LF THEN b + 1 ELSE b
              IN  <<SubSeq(s, 1, e)>> \o RawLines(SubSeq(s, e + 1, Len(s)))
         ELSE <<s>>

IsGeneratedDecl(line) == Contains(line, FILE_OPEN) /\ Contains(line, svg_rel_path)

DeclLines(content) == SelectSeq(RawLines(content), IsGeneratedDecl)
IsOpaque(line) == ~IsGeneratedDecl(line)
OpaqueLines(content) == SelectSeq(RawLines(content), IsOpaque)

\* The filename a declaration line names: the text between the first
\* assets/data/svg/ and the next "<".
DeclName(line) ==
    LET p == CHOOSE i \in 1..Len(line) :
                 /\ StartsAt(line, i, svg_rel_path)
                 /\ \A j \in 1..(i - 1) : ~StartsAt(line, j, svg_rel_path)
        from == p + Len(svg_rel_path)
        stops == {i \in from..Len(line) : line[i] \in {"<", LF, CR}}
        to == IF stops = {} THEN Len(line)
              ELSE (CHOOSE i \in stops : \A j \in stops : i <= j) - 1
    IN  SubSeq(line, from, to)
DeclNames(content) ==
    LET d == DeclLines(content) IN [i \in 1..Len(d) |-> DeclName(d[i])]

StrictlyIncreasing(names) ==
    \A i \in 1..Len(names) : \A j \in 1..Len(names) :
        i < j => StrLess(names[i], names[j])

\* C2: update_gresource_xml is idempotent: a second call with the same
\* filename list leaves the manifest exactly as the first call wrote it.
C2_Idempotent ==
    \A i \in 2..Len(syncLog) : syncLog[i].after = syncLog[i - 1].after

\* C2's case: an existing manifest with a closing line that the first call
\* changed, given a non-empty list, has been synchronized twice.
C2_Witness ==
    /\ pc = "sync" /\ Len(syncLog) >= 2
    /\ syncLog[1].before.exists
    /\ syncLog[1].after # syncLog[1].before
    /\ svg_files # <<>>
    /\ Contains(syncLog[1].before.content, GRES_CLOSE)
    /\ Contains(syncLog[1].before.content, StaleLine)

\* C3: the lines that are not generated-asset declarations come out of
\* update_gresource_xml as they went in: same lines, same order, same bytes
\* (terminators included).
C3_OpaqueLinesUntouched ==
    \A i \in 1..Len(syncLog) :
        syncLog[i].before.exists =>
            OpaqueLines(syncLog[i].after.content) = OpaqueLines(syncLog[i].before.content)

(***************************************************************************)
(* format_dial_code, and the use main makes of it (lines 164-166).         *)
(***************************************************************************)
\* A Python value that is a str or None.
None == [some |-> FALSE, v |-> <<>>]
Some(s) == [some |-> TRUE, v |-> s]
\* bool(x) of such a value: None and "" are falsy.
Truthy(x) == x.some /\ x.v # <<>>

PLUS_1 == <<"+", "1">>
PLUS_7 == <<"+", "7">>
US == <<"U", "S">>
CA == <<"C", "A">>
RU == <<"R", "U">>
KZ == <<"K", "Z">>

format_dial_code_plainSeven(root, suffixes, cca2) ==
    IF ~Truthy(root) THEN None
    ELSE IF root.v = PLUS_1 /\ cca2 \in {US, CA} THEN Some(PLUS_1)
    ELSE IF root.v = PLUS_1 /\ suffixes # <<>> THEN Some(root.v \o suffixes[1])
    ELSE Some(root.v \o (IF suffixes # <<>> THEN suffixes[1] ELSE <<>>))

format_dial_code(root, suffixes, cca2) ==
    IF ~Truthy(root) THEN None                                     \* line 83
    ELSE IF root.v = PLUS_1 /\ cca2 \in {US, CA} THEN Some(PLUS_1) \* 85-86
    ELSE IF root.v = PLUS_1 /\ suffixes # <<>>                     \* 87
         THEN Some(root.v \o suffixes[1])
    ELSE IF root.v = PLUS_7 /\ cca2 \in {RU, KZ} THEN Some(PLUS_7) \* 89-90
    ELSE Some(root.v \o (IF suffixes # <<>> THEN suffixes[1] ELSE <<>>)) \* 92-93

DialRoots == {None, Some(<<>>), Some(PLUS_1), Some(PLUS_7), Some(<<"+", "4", "4">>)}
DialSuffixes == {<<>>, <<<<"2", "4", "2">>>>, <<<<>>>>, <<<<"6">>, <<"7">>>>}
DialCodes == {US, CA, RU, KZ, <<"B", "S">>, <<>>}

InitDial ==
    /\ pc = "dial"
    /\ dial \in [called : {FALSE}, root : DialRoots, suffixes : DialSuffixes,
                 cca2 : DialCodes, dial_code : {None}, kept : {FALSE}]
    /\ xml = NoFile
    /\ IdlePipeline /\ IdleSync /\ IdleExt /\ IdlePot

\* main, lines 165-166: the call, and the record is skipped when the result
\* is falsy.
CallFormatDialCode ==
    /\ pc = "dial"
    /\ ~dial.called
    /\ dial' = [dial EXCEPT
                  !.called = TRUE,
                  !.dial_code = format_dial_code(dial.root, dial.suffixes, dial.cca2),
                  !.kept = Truthy(format_dial_code(dial.root, dial.suffixes, dial.cca2))]
    /\ UNCHANGED <<pc, xml, pipelineVars, syncVars, extVars, potVars>>

NextDial == CallFormatDialCode
SpecDial == InitDial /\ [][NextDial]_vars

\* The decision table of the dial-code algorithm.
DialTable(root, suffixes, cca2) ==
    CASE ~root.some \/ root.v = <<>> -> None
      [] root.some /\ root.v = PLUS_1 /\ cca2 \in {US, CA} -> Some(PLUS_1)
      [] root.some /\ root.v = PLUS_7 /\ cca2 \in {RU, KZ} -> Some(PLUS_7)
      [] OTHER -> IF Len(suffixes) > 0 THEN Some(root.v \o Head(suffixes))
                  ELSE Some(root.v)

\* C6: format_dial_code returns the value of the decision table for every
\* root, suffix list and country code; a record whose root is empty or
\* absent is dropped, and a kept record's dial code is never empty.
C6_DialTable ==
    dial.called =>
        /\ dial.dial_code = DialTable(dial.root, dial.suffixes, dial.cca2)
        /\ (~dial.root.some \/ dial.root.v = <<>>) => ~dial.kept
        /\ dial.kept => (dial.dial_code.some /\ dial.dial_code.v # <<>>)

\* C6's case: a +7 record of Kazakhstan with suffixes has been formatted.
C6_Witness ==
    /\ pc = "dial" /\ dial.called
    /\ dial.root = Some(PLUS_7) /\ dial.cca2 = KZ /\ Len(dial.suffixes) = 2
    /\ dial.dial_code = Some(PLUS_7) /\ dial.kept

(***************************************************************************)
(* Spec: the country pipeline, main() of country_json_api_fetch.py.        *)
(***************************************************************************)
JSON_OUTPUT_DIR == "assets/data/json"
SVG_OUTPUT_DIR == "assets/data/svg"
OFFSET == 127397
default_prefix ==
    <<"/", "o", "r", "g", "/", "g", "n", "o", "m", "e", "/", "s", "h", "e", "l", "l", "/",
      "e", "x", "t", "e", "n", "s", "i", "o", "n", "s", "/", "a", "l", "l", "-", "i", "n",
      "-", "o", "n", "e", "-", "c", "l", "i", "p", "b", "o", "a", "r", "d">>
GRES_OPEN == <<"<", "g", "r", "e", "s", "o", "u", "r", "c", "e">>
PREFIX_EQ == <<"p", "r", "e", "f", "i", "x", "=", "\"">>
RESOURCE_SCHEME == <<"r", "e", "s", "o", "u", "r", "c", "e", ":", "/", "/">>
Unknown == <<"U", "n", "k", "n", "o", "w", "n">>

\* re.search(r'<gresource\s+prefix="([^"]+)"', t) tried at position i:
\* the captured group, or None.
PrefixMatchAt(t, i) ==
    LET a == i + Len(GRES_OPEN)
        ws == IF a > Len(t) THEN 0 ELSE LeadingWs(SubSeq(t, a, Len(t)))
        b == a + ws
        c == b + Len(PREFIX_EQ)
        quotes == {j \in c..Len(t) : t[j] = "\""}
        q == CHOOSE j \in quotes : \A k \in quotes : j <= k
    IN  IF /\ StartsAt(t, i, GRES_OPEN) /\ ws >= 1 /\ StartsAt(t, b, PREFIX_EQ)
           /\ quotes # {} /\ q > c
        THEN Some(SubSeq(t, c, q - 1))
        ELSE None

get_gresource_prefix(file) ==
    IF ~file.exists THEN default_prefix
    ELSE LET t == UniversalNewlines(file.content)
             hits == {i \in 1..Len(t) : PrefixMatchAt(t, i).some}
         IN  IF hits = {} THEN default_prefix
             ELSE PrefixMatchAt(t, CHOOSE i \in hits : \A k \in hits : i <= k).v

\* download_svg, line 57: only a URL ending in .svg is downloaded.
Eligible(url) == url # <<>> /\ EndsWith(url, DOT_SVG)

\* What urlretrieve can do: "ok" writes the file; "refused" raises before the
\* target file is opened; "cut" raises after it was opened and partly written.
Outcomes == {"ok", "refused", "cut"}

\* download_svg's return value.
download_svg_alwaysNamed(url, cca2, outcome) ==
    IF ~Eligible(url) THEN None ELSE Some(SvgName(cca2))
download_svg(url, cca2, outcome) ==
    IF ~Eligible(url) THEN None
    ELSE IF outcome = "ok" THEN Some(SvgName(cca2)) ELSE None

\* download_svg's effect on SVG_OUTPUT_DIR.
DirAfterDownload(dir, url, cca2, outcome) ==
    IF Eligible(url) /\ outcome \in {"ok", "cut"} THEN dir \cup {SvgName(cca2)} ELSE dir

get_flag_emoji(country_code) ==
    IF country_code = <<>> \/ Len(country_code) # 2 THEN <<>>
    ELSE LET code == StrUpper(country_code)
         IN  IF ~(IsAlpha(code[1]) /\ IsAlpha(code[2])) THEN <<>>
             ELSE <<Ord(code[1]) + OFFSET, Ord(code[2]) + OFFSET>>

\* Line 157: the sort key, x.get('name', {}).get('common', '').
SortKey(country) == IF country.name.some THEN country.name.v ELSE <<>>

\* Line 161: the stored name, country.get('name', {}).get('common', 'Unknown').
StoredName(country) == IF country.name.some THEN country.name.v ELSE Unknown

SortCountries(list) ==
    LET keyed == SortKeyed([i \in 1..Len(list) |-> [key |-> SortKey(list[i]), val |-> list[i]]])
    IN  [i \in 1..Len(keyed) |-> keyed[i].val]

\* Lines 173-185: the record built for one country.
Item(country, dial_code, filename, prefix) ==
    [name |-> StoredName(country),
     code |-> country.cca2,
     dial_code |-> dial_code.v,
     emoji |-> get_flag_emoji(country.cca2),
     flag_path |-> IF Truthy(filename)
                   THEN RESOURCE_SCHEME \o prefix \o <<"/">> \o svg_rel_path \o filename.v
                   ELSE <<>>]

\* Line 146: `if not data: return`.
Aborts_never(response) == FALSE
Aborts(response) == ~response.ok \/ response.list = <<>>

\* Line 195: `if downloaded_svgs:`.
CallsSynchronizer_always(downloaded) == TRUE
CallsSynchronizer(downloaded) == downloaded # <<>>

SVG_URL == <<"h", "/", "f", ".", "s", "v", "g">>
PNG_URL == <<"h", "/", "f", ".", "p", "n", "g">>
Countries ==
    { [name |-> Some(<<"A", "l">>), cca2 |-> <<"A", "L">>, root |-> Some(<<"+", "3">>),
       suffixes |-> <<<<"5", "5">>>>, svg |-> SVG_URL],
      [name |-> None, cca2 |-> <<"X", "K">>, root |-> Some(<<"+", "3">>),
       suffixes |-> <<<<"8", "3">>>>, svg |-> PNG_URL],
      [name |-> Some(<<"Z", "m">>), cca2 |-> <<"Z", "M">>, root |-> Some(<<>>),
       suffixes |-> <<>>, svg |-> SVG_URL],
      [name |-> Some(<<"Z", "z">>), cca2 |-> <<"a", "l">>, root |-> Some(<<"+", "7">>),
       suffixes |-> <<>>, svg |-> SVG_URL] }
\* fetch_api_data's results: None (transport error, non-200 status), or the
\* decoded list.
Responses ==
    {NoData} \cup
    {[ok |-> TRUE, list |-> l] : l \in SeqsUpTo(Countries, MaxCountries)}

LOCAL_PREFIX == <<"/", "o", "r", "g", "/", "x">>
SectionLine == GRES_OPEN \o <<" ">> \o PREFIX_EQ \o LOCAL_PREFIX \o <<"\"", ">">>
Manifests ==
    { NoFile,
      TextFile(ManifestText(<<SectionLine, IconLine, StaleLine, ClosingLine>>, <<LF>>, TRUE)),
      TextFile(ManifestText(<<IconLine, ClosingLine>>, <<LF>>, TRUE)) }

FileSystem == [dirs |-> dirs, xml |-> xml, svgDir |-> svgDir, jsonFile |-> jsonFile]

Init ==
    /\ pc = "start"
    /\ xml \in Manifests
    /\ \/ dirs = {} /\ svgDir = {}
       \/ dirs = {JSON_OUTPUT_DIR, SVG_OUTPUT_DIR} /\ svgDir \in {{}, {SvgName(US)}}
    /\ jsonFile = [exists |-> FALSE, records |-> <<>>]
    /\ runs = 0 /\ data = NoData /\ resource_prefix = <<>> /\ processed_list = <<>>
    /\ downloaded_svgs = <<>> /\ idx = 0 /\ handed = <<>>
    /\ atStart = <<>>
    /\ IdleSync /\ IdleDial /\ IdleExt /\ IdlePot

\* Lines 140-142: a run starts by creating the output directories.
SetupDirectories ==
    /\ pc \in {"start", "done", "aborted"}
    /\ runs < MaxRuns
    /\ runs' = runs + 1
    /\ atStart' = FileSystem
    /\ dirs' = dirs \cup {JSON_OUTPUT_DIR, SVG_OUTPUT_DIR}
    /\ data' = NoData /\ resource_prefix' = <<>> /\ processed_list' = <<>>
    /\ downloaded_svgs' = <<>> /\ idx' = 0 /\ handed' = <<>>
    /\ pc' = "fetch"
    /\ UNCHANGED <<xml, svgDir, jsonFile, syncVars, dialVars, extVars, potVars>>

\* Lines 145-157: fetch; return when there is no data; otherwise read the
\* prefix and sort the records.
FetchData ==
    /\ pc = "fetch"
    /\ \E response \in Responses :
         IF Aborts(response)
         THEN /\ data' = response
              /\ pc' = "aborted"
              /\ UNCHANGED <<resource_prefix, idx>>
         ELSE /\ resource_prefix' = get_gresource_prefix(xml)
              /\ data' = [ok |-> response.ok, list |-> SortCountries(response.list)]
              /\ idx' = 1
              /\ pc' = "loop"
    /\ UNCHANGED <<dirs, xml, svgDir, jsonFile, runs, processed_list, downloaded_svgs,
                   handed, atStart, syncVars, dialVars, extVars, potVars>>

\* Lines 159-186: one iteration of the loop over the countries.
ProcessCountry ==
    /\ pc = "loop"
    /\ idx <= Len(data.list)
    /\ LET country == data.list[idx]
           dial_code == format_dial_code(country.root, country.suffixes, country.cca2)
       IN  IF ~Truthy(dial_code)
           THEN UNCHANGED <<svgDir, downloaded_svgs, processed_list>>
           ELSE \E outcome \in (IF Eligible(country.svg) THEN Outcomes ELSE {"ok"}) :
                  LET filename == download_svg(country.svg, country.cca2, outcome)
                  IN  /\ svgDir' = DirAfterDownload(svgDir, country.svg, country.cca2, outcome)
                      /\ downloaded_svgs' = IF Truthy(filename)
                                            THEN Append(downloaded_svgs, filename.v)
                                            ELSE downloaded_svgs
                      /\ processed_list' =
                             Append(processed_list,
                                    Item(country, dial_code, filename, resource_prefix))
    /\ idx' = idx + 1
    /\ UNCHANGED <<pc, dirs, xml, jsonFile, runs, data, resource_prefix, handed, atStart,
                   syncVars, dialVars, extVars, potVars>>

\* Lines 188-192: countries.json is written.
SaveJson ==
    /\ pc = "loop"
    /\ idx > Len(data.list)
    /\ jsonFile' = [exists |-> TRUE, records |-> processed_list]
    /\ pc' = "update"
    /\ UNCHANGED <<dirs, xml, svgDir, runs, data, resource_prefix, processed_list,
                   downloaded_svgs, idx, handed, atStart,
                   syncVars, dialVars, extVars, potVars>>

\* Lines 194-198: the manifest is synchronized when something was downloaded.
UpdateXml ==
    /\ pc = "update"
    /\ IF CallsSynchronizer(downloaded_svgs)
       THEN /\ xml' = update_gresource_xml(xml, downloaded_svgs)
            /\ handed' = <<[files |-> downloaded_svgs, before |-> xml,
                             after |-> xml', svgDir |-> svgDir,
                             records |-> jsonFile.records]>>
       ELSE UNCHANGED <<xml, handed>>
    /\ pc' = "done"
    /\ UNCHANGED <<dirs, svgDir, jsonFile, runs, data, resource_prefix, processed_list,
                   downloaded_svgs, idx, atStart, syncVars, dialVars, extVars, potVars>>

Next == SetupDirectories \/ FetchData \/ ProcessCountry \/ SaveJson \/ UpdateXml
Spec == Init /\ [][Next]_vars

(***************************************************************************)
(* The claims about the country pipeline.                                  *)
(***************************************************************************)
\* C1: after update_gresource_xml(svg_files) has rewritten an existing
\* manifest, its assets/data/svg/ declarations name exactly the filenames of
\* svg_files, each once, in lexicographic order, for every manifest content
\* and every filename list (whether main or a direct caller made the call).
C1_DeclarationsMatchInput ==
    /\ \A i \in 1..Len(syncLog) :
           syncLog[i].before.exists =>
               /\ Range(DeclNames(syncLog[i].after.content)) = Range(svg_files)
               /\ StrictlyIncreasing(DeclNames(syncLog[i].after.content))
    /\ \A i \in 1..Len(handed) :
           handed[i].before.exists =>
               /\ Range(DeclNames(handed[i].after.content)) = Range(handed[i].files)
               /\ StrictlyIncreasing(DeclNames(handed[i].after.content))

\* C4: when a run's filename set is empty and the manifest exists, the
\* manifest after the run holds no generated-asset declaration: the stale
\* ones are removed.
C4_EmptySetClearsManifest ==
    (pc = "done" /\ downloaded_svgs = <<>> /\ xml.exists) =>
        DeclLines(xml.content) = <<>>

\* C4, amended: when a run's filename set is empty, main does not call the
\* synchronizer and the manifest is left exactly as the run found it.
C4_EmptySetLeavesManifest ==
    (pc = "done" /\ downloaded_svgs = <<>>) => xml = atStart.xml

\* C4's case: a run over some records ended with nothing downloaded while
\* the manifest holds a stale declaration.
C4_Witness ==
    /\ pc = "done" /\ downloaded_svgs = <<>> /\ processed_list # <<>>
    /\ xml.exists /\ DeclLines(xml.content) # <<>>

\* C5: when the fetch fails the pipeline aborts and the filesystem is as the
\* run found it: no JSON, no flag, manifest untouched, nothing created.
C5_FailedFetchWritesNothing ==
    (pc \notin {"start", "fetch"} /\ ~data.ok) =>
        (pc = "aborted" /\ FileSystem = atStart)

\* C5, amended: when the fetch fails the pipeline aborts having written no
\* output file; the only thing it created is the two output directories.
C5_FailedFetchOnlyMakesDirs ==
    (pc \notin {"start", "fetch"} /\ ~data.ok) =>
        /\ pc = "aborted"
        /\ jsonFile = atStart.jsonFile /\ svgDir = atStart.svgDir /\ xml = atStart.xml
        /\ dirs = atStart.dirs \cup {JSON_OUTPUT_DIR, SVG_OUTPUT_DIR}

\* C5's case: the fetch failed in a tree that had no output directory yet.
C5_Witness ==
    pc = "aborted" /\ ~data.ok /\ atStart.dirs = {} /\ xml.exists

\* C8: the records written to countries.json are in ascending order of the
\* stored name.
C8_JsonSortedByName ==
    jsonFile.exists =>
        \A i \in 1..(Len(jsonFile.records) - 1) :
            StrLeq(jsonFile.records[i].name, jsonFile.records[i + 1].name)

\* C10: the filename set handed to the synchronizer, and the set the
\* manifest then declares, is the full set of files in the svg directory.
C10_HandedIsDirectory ==
    \A i \in 1..Len(handed) :
        /\ Range(handed[i].files) = handed[i].svgDir
        /\ handed[i].before.exists =>
               Range(DeclNames(handed[i].after.content)) = handed[i].svgDir

\* C10, amended: the filenames handed to the synchronizer are those whose
\* download succeeded in the current run, the ones the flag_path fields of
\* the run's countries.json refer to; each exists in the svg directory, the
\* manifest declares no other file, and files left in the directory by
\* earlier runs or by a failed download are not included.
C10_HandedIsDownloaded ==
    \A i \in 1..Len(handed) :
        LET h == handed[i]
            paths == {h.records[k].flag_path : k \in 1..Len(h.records)} \ {<<>>}
        IN  /\ h.files # <<>>
            /\ Range(h.files) \subseteq h.svgDir
            /\ \A f \in Range(h.files) : \E p \in paths : EndsWith(p, svg_rel_path \o f)
            /\ \A p \in paths : \E f \in Range(h.files) : EndsWith(p, svg_rel_path \o f)
            /\ h.before.exists =>
                   Range(DeclNames(h.after.content)) \subseteq Range(h.files)

\* C10's case: the synchronizer was handed fewer files than the directory
\* of an existing manifest's tree holds.
C10_Witness ==
    \E i \in 1..Len(handed) :
        /\ handed[i].before.exists
        /\ Range(handed[i].files) # handed[i].svgDir
        /\ Range(DeclNames(handed[i].after.content)) = Range(handed[i].files)

(***************************************************************************)
(* extract-data-strings.py: JSON values and extract_strings_recursive.     *)
(***************************************************************************)
TRANSLATABLE_KEYS == {"name", "description", "keywords"}

\* A JSON value: a tag, the text of a string, the elements of a list or the
\* key/value pairs of a mapping (in insertion order, keys distinct).
JStr(s) == [t |-> "str", s |-> s, items |-> <<>>]
JNum == [t |-> "num", s |-> <<>>, items |-> <<>>]
JBool == [t |-> "bool", s |-> <<>>, items |-> <<>>]
JNull == [t |-> "null", s |-> <<>>, items |-> <<>>]
JList(items) == [t |-> "list", s |-> <<>>, items |-> [i \in 1..Len(items) |-> [k |-> "", v |-> items[i]]]]
JDict(pairs) == [t |-> "dict", s |-> <<>>, items |-> pairs]
Pair(k, v) == [k |-> k, v |-> v]

\* Lines 76-81: what the value of a translatable key adds to the set.
RECURSIVE extract_strings_recursive(_, _)
HarvestValue_recursing(value, string_set) ==
    IF value.t = "str" /\ Strip(value.s) # <<>>
    THEN string_set \cup {Strip(value.s)}
    ELSE IF value.t = "list"
         THEN string_set \cup
              {Strip(value.items[i].v.s) : i \in {j \in 1..Len(value.items) :
                  value.items[j].v.t = "str" /\ Strip(value.items[j].v.s) # <<>>}}
         ELSE extract_strings_recursive(value, string_set)
HarvestValue(value, string_set) ==
    IF value.t = "str" /\ Strip(value.s) # <<>>
    THEN string_set \cup {Strip(value.s)}
    ELSE IF value.t = "list"
         THEN string_set \cup
              {Strip(value.items[i].v.s) : i \in {j \in 1..Len(value.items) :
                  value.items[j].v.t = "str" /\ Strip(value.items[j].v.s) # <<>>}}
         ELSE string_set

\* Lines 73-87: the set after extract_strings_recursive(obj, string_set).
RECURSIVE ExtractItems(_, _, _)
\* The loops of lines 74 and 86, from element i on.
ExtractItems(obj, i, string_set) ==
    IF i > Len(obj.items) THEN string_set
    ELSE LET key == obj.items[i].k
             value == obj.items[i].v
         IN  ExtractItems(obj, i + 1,
                 IF obj.t = "dict" /\ key \in TRANSLATABLE_KEYS
                 THEN HarvestValue(value, string_set)
                 ELSE extract_strings_recursive(value, string_set))
extract_strings_recursive(obj, string_set) ==
    IF obj.t \in {"dict", "list"} THEN ExtractItems(obj, 1, string_set)
    ELSE string_set

(***************************************************************************)
(* SpecExtract: extract_strings_recursive called on any JSON value.        *)
(***************************************************************************)
STR_A == <<" ", "a", " ">>
STR_BLANK == <<" ", " ">>
STR_B == <<"b">>
JsonStrings == {JStr(STR_A), JStr(STR_BLANK), JStr(STR_B)}
JsonScalars == JsonStrings \cup {JNum, JBool, JNull}
JsonLists == {JList(l) : l \in SeqsUpTo({JStr(STR_A), JStr(STR_BLANK), JNum}, MaxItems)}
JsonKeys == {"name", "keywords", "id"}
\* Mappings of one pair whose value is a scalar or a list of scalars, and
\* of two pairs.
JsonFlat ==
    {JDict(<<Pair(k, v)>>) : k \in JsonKeys, v \in JsonScalars \cup JsonLists}
    \cup {JDict(<<Pair("name", v), Pair("id", w)>>) : v \in JsonStrings, w \in JsonStrings}
    \cup {JDict(<<Pair("id", JDict(<<Pair("keywords", JList(<<v>>))>>)), Pair("description", w)>>) :
              v \in JsonScalars, w \in JsonScalars}
\* One more level: a list of, or a mapping to, a flat mapping; and a level
\* above that.
JsonNested ==
    {JList(<<d>>) : d \in JsonFlat}
    \cup {JDict(<<Pair(k, d)>>) : k \in {"name", "items"}, d \in JsonFlat}
    \cup {JDict(<<Pair(k, JList(<<JNum, d>>))>>) : k \in {"keywords", "data"}, d \in JsonFlat}
JsonValues == JsonScalars \cup JsonLists \cup JsonFlat \cup JsonNested

InitExtract ==
    /\ pc = "extract"
    /\ ext \in [called : {FALSE}, obj : JsonValues, string_set : {{}, {<<"o", "l", "d">>}},
                result : {{}}]
    /\ xml = NoFile
    /\ IdlePipeline /\ IdleSync /\ IdleDial /\ IdlePot

CallExtract ==
    /\ pc = "extract"
    /\ ~ext.called
    /\ ext' = [ext EXCEPT !.called = TRUE,
                          !.result = extract_strings_recursive(ext.obj, ext.string_set)]
    /\ UNCHANGED <<pc, xml, pipelineVars, syncVars, dialVars, potVars>>

NextExtract == CallExtract
SpecExtract == InitExtract /\ [][NextExtract]_vars

\* The mappings reachable from a value through sequences and through keys
\* that are not translatable.
RECURSIVE ReachableMappings(_)
ReachableMappings(v) ==
    CASE v.t = "list" ->
           UNION {ReachableMappings(v.items[i].v) : i \in 1..Len(v.items)}
      [] v.t = "dict" ->
           {v} \cup UNION {ReachableMappings(v.items[i].v) :
                              i \in {j \in 1..Len(v.items) : v.items[j].k \notin TRANSLATABLE_KEYS}}
      [] OTHER -> {}

\* The string values standing directly under a translatable key of a
\* reachable mapping, or as elements of a sequence standing there.
TranslatableStrings(v) ==
    LET under == UNION {{m.items[i].v : i \in {j \in 1..Len(m.items) :
                            m.items[j].k \in TRANSLATABLE_KEYS}} : m \in ReachableMappings(v)}
        direct == {x \in under : x.t = "str"}
        inList == UNION {{x.items[i].v : i \in 1..Len(x.items)} : x \in {y \in under : y.t = "list"}}
    IN  {x.s : x \in direct} \cup {x.s : x \in {y \in inList : y.t = "str"}}

ExpectedStrings(v) == {Strip(x) : x \in TranslatableStrings(v)} \ {<<>>}

\* C7: extract_strings_recursive adds to the set exactly the trimmed,
\* non-empty strings that are the value, or an element of the sequence
\* value, of a translatable key of a mapping reachable through sequences and
\* non-translatable keys; nothing under a translatable key is recursed into.
C7_ExtractsExactly ==
    ext.called => ext.result = ext.string_set \cup ExpectedStrings(ext.obj)

\* C7's case: a mapping whose translatable key holds a mapping with a
\* harvestable string of its own, which is not harvested.
C7_Witness ==
    /\ pc = "extract" /\ ext.called
    /\ ext.obj = JDict(<<Pair("name", JDict(<<Pair("name", JStr(STR_A))>>))>>)
    /\ ext.result = ext.string_set

(***************************************************************************)
(* SpecPot: main() of extract-data-strings.py on an existing input         *)
(* directory, from discovery to the generated template.                    *)
(***************************************************************************)
SKIP_FILES == {<<"c", "o", "u", "n", "t", "r", "i", "e", "s", ".", "j", "s", "o", "n">>,
               <<"e", "m", "o", "j", "i", "s", "M", "o", "d", "i", "f", "i", "e", "r", ".",
                 "j", "s", "o", "n">>}
DOT_JSON == <<".", "j", "s", "o", "n">>

\* Line 59: escape_string.
escape_string(s) ==
    Concat([i \in 1..Len(s) |->
              IF s[i] = "\\" THEN <<"\\", "\\">>
              ELSE IF s[i] = "\"" THEN <<"\\", "\"">>
              ELSE <<s[i]>>])

\* Lines 124-142: the *.json entries of the directory, sorted, without the
\* skipped names.
discover_json_files(dir) ==
    LET names == {f.name : f \in {g \in dir : EndsWith(g.name, DOT_JSON)}}
        byName == CHOOSE q \in [1..Cardinality(names) -> names] :
                      \A i \in 1..Cardinality(names) : \A j \in 1..Cardinality(names) :
                          i < j => StrLess(q[i], q[j])
    IN  SelectSeq(byName, LAMBDA n : n \notin SKIP_FILES)

\* The content of the file of a name:
\* [parses |-> whether json.load succeeds, value |-> the value loaded].
FileNamed(dir, name) == CHOOSE f \in dir : f.name = name

\* Lines 101-121: process_json_file, as the count returned, the set left
\* behind, and whether an exception leaves the function.
process_json_file_uncaught(file, string_set) ==
    IF ~file.parses
    THEN [count |-> 0, string_set |-> string_set, raised |-> TRUE]
    ELSE [count |-> 0, string_set |-> string_set, raised |-> FALSE]
process_json_file(file, string_set) ==
    IF ~file.parses
    THEN [count |-> 0, string_set |-> string_set, raised |-> FALSE]   \* 116-118
    ELSE LET loaded == file.value
             wrapped == /\ loaded.t = "dict"                           \* 108
                        /\ \E i \in 1..Len(loaded.items) : loaded.items[i].k = "data"
             unwrapped == IF wrapped
                     THEN loaded.items[CHOOSE i \in 1..Len(loaded.items) :
                                           loaded.items[i].k = "data"].v
                     ELSE loaded
             after == extract_strings_recursive(unwrapped, string_set)
         IN  [count |-> Cardinality(after) - Cardinality(string_set),
              string_set |-> after, raised |-> FALSE]

\* Lines 155-171: generate_pot_file: one block per string, sorted.
generate_pot_file(strings, source_files) ==
    LET kept == strings \ {<<>>}
        sorted_strings == CHOOSE q \in [1..Cardinality(kept) -> kept] :
                              \A i \in 1..Cardinality(kept) : \A j \in 1..Cardinality(kept) :
                                  i < j => StrLess(q[i], q[j])
    IN  [exists |-> TRUE,
         blocks |-> [i \in 1..Len(sorted_strings) |->
                        [comment |-> source_files,
                         msgid |-> escape_string(sorted_strings[i])]],
         total |-> Len(sorted_strings)]

STR_QUOTED == <<"q", "\"">>
Malformed == [parses |-> FALSE, value |-> JNull]
Parsed(v) == [parses |-> TRUE, value |-> v]
FileContents ==
    { Malformed,
      Parsed(JDict(<<Pair("name", JStr(STR_A)), Pair("id", JNum)>>)),
      Parsed(JDict(<<Pair("data", JList(<<JDict(<<Pair("keywords",
                                               JList(<<JStr(STR_B), JNum>>))>>)>>))>>)),
      Parsed(JList(<<JDict(<<Pair("description", JStr(STR_QUOTED))>>)>>)) }
A_JSON == <<"a", ".", "j", "s", "o", "n">>
B_JSON == <<"b", ".", "j", "s", "o", "n">>
C_JSON == <<"c", ".", "j", "s", "o", "n">>
COUNTRIES_JSON == <<"c", "o", "u", "n", "t", "r", "i", "e", "s", ".", "j", "s", "o", "n">>
README == <<"R", "E", "A", "D", "M", "E">>
\* Directories: any of a.json, b.json, c.json with any content, with or
\* without a countries.json and a file that is no .json.
Directories ==
    {d \cup e : d \in SUBSET {[name |-> n, parses |-> c.parses, value |-> c.value] :
                                 n \in {A_JSON, B_JSON, C_JSON}, c \in FileContents},
                e \in SUBSET {[name |-> COUNTRIES_JSON, parses |-> TRUE,
                               value |-> JDict(<<Pair("name", JStr(STR_B))>>)],
                              [name |-> README, parses |-> FALSE, value |-> JNull]}}

InitPot ==
    /\ pc = "discover"
    /\ inputDir \in {d \in Directories :
                        \A f \in d : \A g \in d : f.name = g.name => f = g}
    /\ all_strings = {} /\ json_files = <<>> /\ counts = <<>>
    /\ pot = [exists |-> FALSE, blocks |-> <<>>, total |-> 0]
    /\ xml = NoFile
    /\ IdlePipeline /\ IdleSync /\ IdleDial /\ IdleExt

\* Lines 197-209: discovery; exit 0 when there is nothing to process.
Discover ==
    /\ pc = "discover"
    /\ json_files' = discover_json_files(inputDir)
    /\ pc' = IF json_files' = <<>> THEN "exit0" ELSE "process"
    /\ UNCHANGED <<all_strings, inputDir, counts, pot, xml, pipelineVars, syncVars,
                   dialVars, extVars>>

\* Lines 211-213: one iteration of the loop over the files.
ProcessFile ==
    /\ pc = "process"
    /\ Len(counts) < Len(json_files)
    /\ LET name == json_files[Len(counts) + 1]
           got == process_json_file(FileNamed(inputDir, name), all_strings)
       IN  IF got.raised
           THEN /\ pc' = "crashed"
                /\ UNCHANGED <<all_strings, counts>>
           ELSE /\ all_strings' = got.string_set
                /\ counts' = Append(counts, [name |-> name, count |-> got.count,
                                             before |-> all_strings,
                                             after |-> got.string_set])
                /\ pc' = pc
    /\ UNCHANGED <<json_files, inputDir, pot, xml, pipelineVars, syncVars, dialVars, extVars>>

\* Lines 218-221: the template is generated.
GeneratePot ==
    /\ pc = "process"
    /\ Len(counts) = Len(json_files)
    /\ pot' = generate_pot_file(all_strings, json_files)
    /\ pc' = "exit"
    /\ UNCHANGED <<all_strings, json_files, inputDir, counts, xml, pipelineVars, syncVars,
                   dialVars, extVars>>

NextPot == Discover \/ ProcessFile \/ GeneratePot
SpecPot == InitPot /\ [][NextPot]_vars

\* The strings a parsable file holds for translation, by the extraction
\* rule of the specification.
FileStrings(file) ==
    IF ~file.parses THEN {}
    ELSE IF file.value.t = "dict" /\ \E i \in 1..Len(file.value.items) : file.value.items[i].k = "data"
         THEN ExpectedStrings(file.value.items[CHOOSE i \in 1..Len(file.value.items) :
                                                  file.value.items[i].k = "data"].v)
         ELSE ExpectedStrings(file.value)

\* C9: a file that cannot be parsed counts 0 and leaves the accumulated set
\* as it was; the run never stops at it: every later file is processed and
\* the template is generated from the strings of the files that parse.
C9_MalformedFileIsSkipped ==
    /\ pc # "crashed"
    /\ \A i \in 1..Len(counts) :
           ~FileNamed(inputDir, counts[i].name).parses =>
               counts[i].count = 0 /\ counts[i].after = counts[i].before
    /\ pc = "exit" =>
           /\ Len(counts) = Len(json_files)
           /\ \A i \in 1..Len(counts) : counts[i].name = json_files[i]
           /\ pot.exists
           /\ {pot.blocks[i].msgid : i \in 1..Len(pot.blocks)} =
                  {escape_string(x) : x \in UNION {FileStrings(FileNamed(inputDir, json_files[i])) :
                                                      i \in 1..Len(json_files)}}

\* C9's case: a malformed file came first, a file with strings after it, and
\* the template holds the strings of the second.
C9_Witness ==
    /\ pc = "exit" /\ Len(json_files) >= 2
    /\ ~FileNamed(inputDir, json_files[1]).parses
    /\ FileNamed(inputDir, json_files[2]).parses
    /\ counts[1].count = 0 /\ counts[2].count > 0
    /\ pot.total > 0

====
